---- MODULE Spec2Model ----
(***************************************************************************)
(* Model of pi-led-service: the LED controllers of wyoming_led_service.py  *)
(* (RPI5LEDController, RPI281xLEDController, RespeakerLEDController with   *)
(* its APA102 encoder), the Wyoming event handler LEDEventHandler and the  *)
(* shutdown path of main(); and the command-line program led_controller.py *)
(* with its LEDController.                                                 *)
(*                                                                         *)
(* The specifications share the controller state:                          *)
(*   Spec       the service: client connections deliver events, one        *)
(*              LEDEventHandler per connection runs handle_event, the      *)
(*              SIGINT/SIGTERM handler and the finally block run           *)
(*              cleanup().                                                 *)
(*   SpecEnc    the APA102 encoder alone: a RespeakerLEDController is      *)
(*              built with drawn arguments and set_color / show / set_all  *)
(*              are called on it.                                          *)
(*   SpecBright the same controller with drawn brightness arguments and    *)
(*              bright_percent values.                                     *)
(*   SpecShow   the same controller on strips long enough for show() to    *)
(*              slice the buffer.                                          *)
(*   SpecApi    each of the five controller implementations on its own,    *)
(*              called with drawn arguments.                               *)
(*   SpecCli    one run of led_controller.py: main() from the constructor  *)
(*              to the exit.                                               *)
(*                                                                         *)
(* The main thread runs one piece of synchronous code at a time.  That     *)
(* code is kept as a list of primitive operations (todo): buffer writes    *)
(* and transport calls, in the order the Python code issues them.  A       *)
(* Python-level signal handler runs between two such operations of the     *)
(* interrupted code, which is why they are separate steps.                 *)
(***************************************************************************)
EXTENDS Integers, Sequences, FiniteSets, TLC

VARIABLES
    variant,      \* which controller class create_led_controller returned
    num_leds,     \* LEDController.num_leds
    brightness,   \* RespeakerLEDController.brightness
    rgb,          \* RespeakerLEDController.rgb (offsets of r, g, b in a word)
    leds,         \* RespeakerLEDController.leds: 4 bytes per LED
    led_power,    \* "on" | "off" | "none" (gpiozero absent)
    spi_open,     \* RespeakerLEDController.spi is open
    led_states,   \* RPI5LEDController.led_states
    strip,        \* the vendor strip's pixel buffer (rpi5_ws2812 / rpi_ws281x)
    wire,         \* spi.xfer2 payloads of the show() in progress or last completed
    sent,         \* the last complete frame put on the transport (<<>>: none yet)
    exc,          \* exception raised out of the running code ("none" if none)
    inbox,        \* per connection: events received and not yet handled
    st,           \* per connection: "read" | "color" | "sleep"
    prog,         \* per connection: remaining (colour, sleep) steps of handle_event
    ev,           \* per connection: the event handle_event is running for ("none": not running)
    nframes,      \* per connection: frames transmitted so far by the running handle_event
    who,          \* code running on the main thread: "handler" | "signal" | "finally" | "none"
    todo,         \* remaining primitive operations of the running code
    susp,         \* remaining operations of the code a signal handler interrupted
    phase,        \* "serve" | "signal" | "finally" | "done"
    narr,         \* number of events delivered so far
    last,         \* most recently delivered lifecycle event ("none" if none)
    cleanups,     \* number of cleanup() calls that have returned
    flashcut,     \* a satellite-disconnected event arrived while a handler was in the flash
    order,        \* the order argument RespeakerLEDController was constructed with
    call,         \* the controller call (or command) made last, with its arguments
    calls,        \* number of controller calls made so far
    bright_arg,   \* the brightness argument RespeakerLEDController was constructed with
    tries,        \* show() / strip.show() calls begun since counting started
    shows,        \* frames put on the transport completely since counting started
    before,       \* the authoritative frame when the last call was made
    fault,        \* transport failure injected: "none" | "first" | "all"
    exit_code     \* led_controller.py: process exit status ("none" while running)

ctlvars == <<variant, num_leds, brightness, rgb, leds, led_power, spi_open,
             led_states, strip, wire, sent, exc>>
\* what only the call-level specifications and the command-line program use
apivars == <<tries, shows, before, fault, exit_code>>
svcvarsEnc == <<inbox, st, prog, ev, nframes, who, todo, susp, narr, last,
                cleanups, flashcut>>
vars == <<variant, num_leds, brightness, rgb, leds, led_power, spi_open,
          led_states, strip, wire, sent, exc,
          inbox, st, prog, ev, nframes, who, todo, susp, phase, narr, last,
          cleanups, flashcut, order, call, calls,
          bright_arg, tries, shows, before, fault, exit_code>>

(***************************************************************************)
(* Bounds of the model.                                                    *)
(***************************************************************************)
MaxEvents == 2       \* events delivered in one run of the service
NumConns == 2        \* client connections (one LEDEventHandler each)
MaxSvcLeds == 2      \* --led-count values explored by Spec: 1..MaxSvcLeds
MaxEncLeds == 3      \* num_leds values explored by SpecEnc: 1..MaxEncLeds
MaxCalls == 4        \* controller calls in one run of SpecEnc
MaxBrightArg == 40   \* brightness arguments explored by SpecBright: 0..MaxBrightArg
MaxBrightLeds == 2   \* num_leds values explored by SpecBright: 1..MaxBrightLeds
MaxBrightCalls == 2  \* controller calls in one run of SpecBright
MaxShowLeds == 10    \* num_leds values explored by SpecShow: 1..MaxShowLeds
MaxShowCalls == 3    \* controller calls in one run of SpecShow
MaxApiLeds == 2      \* led counts explored by SpecApi: 1..MaxApiLeds
MaxApiCalls == 3     \* controller calls in one run of SpecApi
MaxCliLeds == 11     \* --leds values explored by SpecCli: 0..MaxCliLeds

(***************************************************************************)
(* Program constants.                                                      *)
(***************************************************************************)
MAX_LEDS == 10
MAX_BRIGHTNESS == 31
LED_START == 224
CHUNK == 32

_BLACK == <<0, 0, 0>>
_RED == <<255, 0, 0>>
_YELLOW == <<255, 255, 0>>
_BLUE == <<0, 0, 255>>
_GREEN == <<0, 255, 0>>

Min(a, b) == IF a < b THEN a ELSE b

Conns == 1..NumConns

(***************************************************************************)
(* RespeakerLEDController: the APA102 encoder.                             *)
(***************************************************************************)
Orders == {"rgb", "rbg", "grb", "gbr", "brg", "bgr"}

\* str.lower() on the order tokens the model draws.
Lower(s) ==
    CASE s = "RGB" -> "rgb"
      [] s = "GRB" -> "grb"
      [] OTHER -> s

\* mutant of RGB_MAP: the offsets follow the token's letters (byte k holds the
\* channel named by letter k)
RGB_MAP_ByLetter(o) ==
    CASE o = "rgb" -> <<1, 2, 3>>
      [] o = "rbg" -> <<1, 3, 2>>
      [] o = "grb" -> <<2, 1, 3>>
      [] o = "gbr" -> <<3, 1, 2>>
      [] o = "brg" -> <<2, 3, 1>>
      [] o = "bgr" -> <<3, 2, 1>>

RGB_MAP(o) ==
    CASE o = "rgb" -> <<3, 2, 1>>
      [] o = "rbg" -> <<3, 1, 2>>
      [] o = "grb" -> <<2, 3, 1>>
      [] o = "gbr" -> <<2, 1, 3>>
      [] o = "brg" -> <<1, 3, 2>>
      [] o = "bgr" -> <<1, 2, 3>>

\* self.RGB_MAP.get(order.lower(), self.RGB_MAP["rgb"])
OrderMap(o) ==
    IF Lower(o) \in Orders THEN RGB_MAP(Lower(o)) ELSE RGB_MAP("rgb")

\* mutant of ClampBrightness: the argument is stored as given
ClampBrightness_AsGiven(b) == b

\* the brightness stored by __init__
ClampBrightness(b) == IF b > MAX_BRIGHTNESS THEN MAX_BRIGHTNESS ELSE b

\* [self.LED_START, 0, 0, 0] * self.num_leds
RECURSIVE InitLeds(_)
InitLeds(n) == IF n <= 0 THEN <<>> ELSE <<LED_START, 0, 0, 0>> \o InitLeds(n - 1)

\* int((bright_percent * self.brightness / 100.0) + 0.5), for products >= 0
PixelBrightness(bright_percent, b) == (2 * bright_percent * b + 100) \div 200

\* (brightness & 0b00011111) | self.LED_START
LedStart(br) == (br % 32) + LED_START

\* mutant of SetColorLeds: r is stored at the offset of g and g at that of r
SetColorLeds_SwapRG(buf, n, map, b, led_num, c, bright_percent) ==
    IF led_num < 0 \/ led_num >= n
    THEN buf
    ELSE LET s == 4 * led_num + 1
             b0 == [buf EXCEPT ![s] = LedStart(PixelBrightness(bright_percent, b))]
             b1 == [b0 EXCEPT ![s + map[2]] = c[1]]
             b2 == [b1 EXCEPT ![s + map[1]] = c[2]]
         IN  [b2 EXCEPT ![s + map[3]] = c[3]]

\* mutant of SetColorLeds: the word starts one byte late
SetColorLeds_Spill(buf, n, map, b, led_num, c, bright_percent) ==
    IF led_num < 0 \/ led_num >= n
    THEN buf
    ELSE LET s == 4 * led_num + 2
             b0 == [buf EXCEPT ![s] = LedStart(PixelBrightness(bright_percent, b))]
             b1 == [b0 EXCEPT ![s + map[1]] = c[1]]
             b2 == [b1 EXCEPT ![s + map[2]] = c[2]]
         IN  [b2 EXCEPT ![s + map[3]] = c[3]]

\* RespeakerLEDController.set_color: the buffer after the call.  Python index
\* 4*led_num + k is position 4*led_num + k + 1 of the sequence.
SetColorLeds(buf, n, map, b, led_num, c, bright_percent) ==
    IF led_num < 0 \/ led_num >= n
    THEN buf
    ELSE LET s == 4 * led_num + 1
             b0 == [buf EXCEPT ![s] = LedStart(PixelBrightness(bright_percent, b))]
             b1 == [b0 EXCEPT ![s + map[1]] = c[1]]
             b2 == [b1 EXCEPT ![s + map[2]] = c[2]]
         IN  [b2 EXCEPT ![s + map[3]] = c[3]]

\* the word of LED led_num in the buffer
Word(buf, led_num) == SubSeq(buf, 4 * led_num + 1, 4 * led_num + 4)

\* number of spi.xfer2(data[:32]) calls of show()
NumChunks(buf) == (Len(buf) + CHUNK - 1) \div CHUNK

\* mutant of Chunk: a slice runs one byte into the next one
Chunk_Overlap(buf, k) ==
    SubSeq(buf, CHUNK * (k - 1) + 1, Min(CHUNK * k + 1, Len(buf)))

\* the k-th data[:32] slice (k = 1..NumChunks)
Chunk(buf, k) == SubSeq(buf, CHUNK * (k - 1) + 1, Min(CHUNK * k, Len(buf)))

StartFrame == <<0, 0, 0, 0>>

\* mutant of EndFrame: four bytes that carry no one-bit
EndFrame_Zero == <<0, 0, 0, 0>>

EndFrame == <<255, 255, 255, 255>>

\* the xfer2 payloads of one show(), in order
ShowXfers(buf) ==
    <<StartFrame>> \o [k \in 1..NumChunks(buf) |-> Chunk(buf, k)] \o <<EndFrame>>

RECURSIVE Concat(_)
Concat(ss) == IF ss = <<>> THEN <<>> ELSE Head(ss) \o Concat(Tail(ss))

\* read-back of the buffer through the controller's own channel map
FrameOf(buf, n, map) ==
    [i \in 1..n |-> <<buf[4 * (i - 1) + 1 + map[1]],
                      buf[4 * (i - 1) + 1 + map[2]],
                      buf[4 * (i - 1) + 1 + map[3]]>>]

AllOf(n, c) == [i \in 1..n |-> c]

\* RespeakerLEDController.set_all without its show(): set_color for every LED
RECURSIVE SetAllLeds(_, _, _, _, _, _)
SetAllLeds(buf, n, map, b, c, i) ==
    IF i >= n
    THEN buf
    ELSE SetAllLeds(SetColorLeds(buf, n, map, b, i, c, 100), n, map, b, c, i + 1)

(***************************************************************************)
(* SpecEnc: a RespeakerLEDController on its own.  Init is the state after  *)
(* __init__ with drawn arguments; each action is one call on it.           *)
(***************************************************************************)
OrderArgs == Orders \cup {"GRB", "xyz"}
BrightnessArgs == {0, 31}
EncColours == {_RED, _GREEN, _BLUE, <<1, 2, 3>>}
EncPercents == {100}

NoCall == [op |-> "none", i |-> 0, c |-> _BLACK, pct |-> 0]

\* the service part of the state, unused by SpecEnc
SvcIdle ==
    /\ inbox = [c \in Conns |-> <<>>]
    /\ st = [c \in Conns |-> "read"]
    /\ prog = [c \in Conns |-> <<>>]
    /\ ev = [c \in Conns |-> "none"]
    /\ nframes = [c \in Conns |-> 0]
    /\ who = "none"
    /\ todo = <<>>
    /\ susp = <<>>
    /\ narr = 0
    /\ last = "none"
    /\ cleanups = 0
    /\ flashcut = FALSE

\* the counters and the failure injection, unused by the service
ApiIdle ==
    /\ tries = 0
    /\ shows = 0
    /\ before = <<>>
    /\ fault = "none"
    /\ exit_code = "none"

InitEnc ==
    /\ variant = "respeaker"
    /\ num_leds \in 1..MaxEncLeds
    /\ bright_arg \in BrightnessArgs
    /\ brightness = ClampBrightness(bright_arg)
    /\ ApiIdle
    /\ order \in OrderArgs
    /\ rgb = OrderMap(order)
    /\ leds = InitLeds(num_leds)
    /\ led_power = "on"
    /\ spi_open = TRUE
    /\ led_states = <<>>
    /\ strip = <<>>
    /\ wire = <<>>
    /\ sent = <<>>
    /\ exc = "none"
    /\ SvcIdle
    /\ phase = "enc"
    /\ call = NoCall
    /\ calls = 0

EncSetColor(i, c, pct) ==
    /\ calls < MaxCalls
    /\ leds' = SetColorLeds(leds, num_leds, rgb, brightness, i, c, pct)
    /\ call' = [op |-> "set_color", i |-> i, c |-> c, pct |-> pct]
    /\ calls' = calls + 1
    /\ UNCHANGED <<variant, num_leds, brightness, rgb, led_power, spi_open,
                   led_states, strip, wire, sent, exc, order, phase, bright_arg>>
    /\ UNCHANGED svcvarsEnc
    /\ UNCHANGED apivars

EncShow ==
    /\ calls < MaxCalls
    /\ wire' = ShowXfers(leds)
    /\ sent' = FrameOf(leds, num_leds, rgb)
    /\ call' = [op |-> "show", i |-> 0, c |-> _BLACK, pct |-> 0]
    /\ calls' = calls + 1
    /\ UNCHANGED <<variant, num_leds, brightness, rgb, leds, led_power, spi_open,
                   led_states, strip, exc, order, phase, bright_arg>>
    /\ UNCHANGED svcvarsEnc
    /\ UNCHANGED apivars

EncSetAll(c) ==
    /\ calls < MaxCalls
    /\ leds' = SetAllLeds(leds, num_leds, rgb, brightness, c, 0)
    /\ wire' = ShowXfers(leds')
    /\ sent' = FrameOf(leds', num_leds, rgb)
    /\ call' = [op |-> "set_all", i |-> 0, c |-> c, pct |-> 100]
    /\ calls' = calls + 1
    /\ UNCHANGED <<variant, num_leds, brightness, rgb, led_power, spi_open,
                   led_states, strip, exc, order, phase, bright_arg>>
    /\ UNCHANGED svcvarsEnc
    /\ UNCHANGED apivars

NextEnc ==
    \/ \E i \in (-1)..num_leds, c \in EncColours, pct \in EncPercents :
          EncSetColor(i, c, pct)
    \/ EncShow
    \/ \E c \in EncColours : EncSetAll(c)

SpecEnc == InitEnc /\ [][NextEnc]_vars

(***************************************************************************)
(* SpecBright: the brightness arithmetic of RespeakerLEDController.  The   *)
(* controller is built with a drawn brightness argument (default order)    *)
(* and set_color is called with drawn bright_percent values.               *)
(***************************************************************************)
BrightArgs == 0..MaxBrightArg
PercentArgs == {0, 50, 100, 150, 200}
BrightColours == {<<1, 2, 3>>}

InitBright ==
    /\ variant = "respeaker"
    /\ num_leds \in 1..MaxBrightLeds
    /\ bright_arg \in BrightArgs
    /\ brightness = ClampBrightness(bright_arg)
    /\ ApiIdle
    /\ order = "rgb"
    /\ rgb = OrderMap(order)
    /\ leds = InitLeds(num_leds)
    /\ led_power = "on"
    /\ spi_open = TRUE
    /\ led_states = <<>>
    /\ strip = <<>>
    /\ wire = <<>>
    /\ sent = <<>>
    /\ exc = "none"
    /\ SvcIdle
    /\ phase = "enc"
    /\ call = NoCall
    /\ calls = 0

NextBright ==
    /\ calls < MaxBrightCalls
    /\ \/ \E i \in (-1)..num_leds, c \in BrightColours, pct \in PercentArgs :
              EncSetColor(i, c, pct)
       \/ EncShow
       \/ \E c \in BrightColours : EncSetAll(c)

SpecBright == InitBright /\ [][NextBright]_vars

(***************************************************************************)
(* SpecShow: show() of RespeakerLEDController on strips of up to           *)
(* MaxShowLeds LEDs, built as create_led_controller builds it (brightness  *)
(* 31, default order).                                                     *)
(***************************************************************************)
ShowColours == {<<1, 2, 3>>, <<4, 5, 6>>}

InitShow ==
    /\ variant = "respeaker"
    /\ num_leds \in 1..MaxShowLeds
    /\ bright_arg = 31
    /\ brightness = ClampBrightness(bright_arg)
    /\ ApiIdle
    /\ order = "rgb"
    /\ rgb = OrderMap(order)
    /\ leds = InitLeds(num_leds)
    /\ led_power = "on"
    /\ spi_open = TRUE
    /\ led_states = <<>>
    /\ strip = <<>>
    /\ wire = <<>>
    /\ sent = <<>>
    /\ exc = "none"
    /\ SvcIdle
    /\ phase = "enc"
    /\ call = NoCall
    /\ calls = 0

NextShow ==
    /\ calls < MaxShowCalls
    /\ \/ \E i \in 0..(num_leds - 1), c \in ShowColours : EncSetColor(i, c, 100)
       \/ EncShow
       \/ \E c \in ShowColours : EncSetAll(c)

SpecShow == InitShow /\ [][NextShow]_vars

(***************************************************************************)
(* The controllers as the service drives them.  A call is the list of its  *)
(* primitive operations; Exec is the effect of one of them.                *)
(***************************************************************************)
Variants == {"respeaker", "rpi5", "rpi281x"}

\* LEDController of led_controller.py, by the driver_type its constructor chose
CliVariants == {"cli_rpi5", "cli_ws281x"}

\* the controllers that keep led_states and hand it to the rpi5_ws2812 strip
Rpi5Like == {"rpi5", "cli_rpi5"}

\* the controllers that write the pixels of an rpi_ws281x PixelStrip
Ws281xLike == {"rpi281x", "cli_ws281x"}

Op(kind, i, c) == [op |-> kind, i |-> i, c |-> c]

XferOps == {"xstart", "xdata", "xend"}

\* RespeakerLEDController.show: start frame, data[:32] slices, end frame
ShowOps ==
    <<Op("xstart", 0, _BLACK)>>
    \o [k \in 1..NumChunks(leds) |-> Op("xdata", k, _BLACK)]
    \o <<Op("xend", 0, _BLACK)>>

\* LEDController.set_all of wyoming_led_service.py: for i in range(num_leds):
\* self.set_color(i, r, g, b), where RPI281xLEDController.set_color writes one
\* pixel and calls strip.show()
BaseSetAllOps(c) ==
    Concat([i \in 1..num_leds |-> <<Op("set", i - 1, c), Op("stripshow", 0, _BLACK)>>])

\* RPI5LEDController.set_all
RPI5SetAllOps(c) == <<Op("fill", 0, c), Op("stripshow", 0, _BLACK)>>

\* mutant of RespeakerSetAllOps: the loop stops one LED short
RespeakerSetAllOps_SkipLast(c) ==
    [i \in 1..(num_leds - 1) |-> Op("set", i - 1, c)] \o ShowOps

\* RespeakerLEDController.set_all
RespeakerSetAllOps(c) == [i \in 1..num_leds |-> Op("set", i - 1, c)] \o ShowOps

\* LEDController.set_all of led_controller.py with the rpi_ws281x driver:
\* setPixelColor for every LED, then one strip.show()
CliWs281xSetAllOps(c) ==
    [i \in 1..num_leds |-> Op("set", i - 1, c)] \o <<Op("stripshow", 0, _BLACK)>>

\* controller.set_all(r, g, b), dispatched on the controller's class
SetAllOps(c) ==
    CASE variant = "respeaker" -> RespeakerSetAllOps(c)
      [] variant = "rpi5" -> RPI5SetAllOps(c)
      [] variant = "rpi281x" -> BaseSetAllOps(c)
      [] variant = "cli_rpi5" -> RPI5SetAllOps(c)
      [] variant = "cli_ws281x" -> CliWs281xSetAllOps(c)

\* mutant of SetColorOps: the index is not checked
SetColorOps_NoCheck(i, c) ==
    IF variant = "respeaker"
    THEN <<Op("set", i, c)>>
    ELSE <<Op("set", i, c), Op("stripshow", 0, _BLACK)>>

\* controller.set_color(led_index, r, g, b): nothing for an index out of
\* range; RespeakerLEDController.set_color writes the buffer and does not
\* call show(), the others write the pixel and call strip.show()
SetColorOps(i, c) ==
    IF i < 0 \/ i >= num_leds
    THEN <<>>
    ELSE IF variant = "respeaker"
         THEN <<Op("set", i, c)>>
         ELSE <<Op("set", i, c), Op("stripshow", 0, _BLACK)>>

\* rgb_values[i * 3 : i * 3 + 3]
PatternColour(vals, i) == SubSeq(vals, 3 * i + 1, 3 * i + 3)

\* LEDController.set_pattern of led_controller.py once the length check has
\* passed: led_states[i] (rpi5-ws2812) or setPixelColor(i) for every LED,
\* set_pixels(led_states) for rpi5-ws2812, then one strip.show()
SetPatternOps(vals) ==
    IF variant = "cli_rpi5"
    THEN [i \in 1..num_leds |-> Op("state", i - 1, PatternColour(vals, i - 1))]
         \o <<Op("setpixels", 0, _BLACK), Op("stripshow", 0, _BLACK)>>
    ELSE [i \in 1..num_leds |-> Op("set", i - 1, PatternColour(vals, i - 1))]
         \o <<Op("stripshow", 0, _BLACK)>>

\* LEDController.clear
ClearOps == SetAllOps(_BLACK)

\* cleanup(): LEDController.cleanup is clear(); RespeakerLEDController.cleanup
\* adds led_power.off() (if led_power) and spi.close()
CleanupOps ==
    IF variant = "respeaker"
    THEN ClearOps
         \o (IF led_power = "none" THEN <<>> ELSE <<Op("poweroff", 0, _BLACK)>>)
         \o <<Op("close", 0, _BLACK)>>
    ELSE IF variant = "cli_rpi5"
         THEN ClearOps \o <<Op("close", 0, _BLACK)>>
         ELSE ClearOps

\* the transport fails at this strip.show(): the injected failure
Faulty == fault = "all" \/ (fault = "first" /\ tries = 0)

\* LEDController.cleanup of led_controller.py runs inside try / bare except
Swallowed ==
    variant \in CliVariants /\ (call.op = "cleanup" \/ phase = "cli_cleanup")

\* spi.xfer2 on a handle that spi.close() has closed raises; so does
\* strip.show() on the SPI handle led_controller.py has closed, and any
\* strip.show() at which the transport fails
Raises(o) ==
    \/ o.op \in XferOps /\ ~spi_open
    \/ o.op = "stripshow" /\ variant = "cli_rpi5" /\ ~spi_open
    \/ o.op = "stripshow" /\ Faulty

\* the data bytes of a completed show(): all payloads but the start frame
WireData(w) == Concat(Tail(w))

\* the effect of one primitive operation on the controller and the transport
Exec(o) ==
    /\ leds' = IF o.op = "set" /\ variant = "respeaker"
               THEN SetColorLeds(leds, num_leds, rgb, brightness, o.i, o.c, 100)
               ELSE leds
    /\ led_states' = CASE o.op = "fill" -> AllOf(num_leds, o.c)
                       [] o.op \in {"set", "state"} /\ variant \in Rpi5Like ->
                            [led_states EXCEPT ![o.i + 1] = o.c]
                       [] OTHER -> led_states
    /\ strip' = CASE o.op = "fill" -> AllOf(num_leds, o.c)
                  [] o.op = "set" /\ variant \in Rpi5Like -> led_states'
                  [] o.op = "setpixels" -> led_states
                  [] o.op = "set" /\ variant \in Ws281xLike ->
                       [strip EXCEPT ![o.i + 1] = o.c]
                  [] OTHER -> strip
    /\ wire' = CASE Raises(o) -> wire
                 [] o.op = "xstart" -> <<StartFrame>>
                 [] o.op = "xdata" -> Append(wire, Chunk(leds, o.i))
                 [] o.op = "xend" -> Append(wire, EndFrame)
                 [] OTHER -> wire
    /\ sent' = CASE Raises(o) -> sent
                 [] o.op = "stripshow" -> strip
                 [] o.op = "xend" -> FrameOf(WireData(wire), num_leds, rgb)
                 [] OTHER -> sent
    /\ led_power' = IF o.op = "poweroff" THEN "off" ELSE led_power
    /\ spi_open' = IF o.op = "close" THEN FALSE ELSE spi_open
    /\ exc' = IF Raises(o) /\ ~Swallowed THEN "OSError" ELSE exc

\* a frame has been put on the transport completely
Completes(o) == o.op \in {"stripshow", "xend"} /\ ~Raises(o)

(***************************************************************************)
(* SpecApi: each of the five controller implementations on its own.  Init  *)
(* is the state after its constructor; a call is made with drawn           *)
(* arguments (ApiCall) and its primitive operations run one by one         *)
(* (ApiStep) until it returns or raises.                                   *)
(***************************************************************************)
ApiVariants == Variants \cup CliVariants
ApiColours == {_RED, _BLUE}

\* the state after the constructor of controller class v with n LEDs
Constructed(v, n) ==
    /\ variant = v
    /\ num_leds = n
    /\ bright_arg = 31
    /\ brightness = ClampBrightness(bright_arg)
    /\ order = "rgb"
    /\ rgb = OrderMap(order)
    /\ leds = IF v = "respeaker" THEN InitLeds(n) ELSE <<>>
    /\ led_power = IF v = "respeaker" THEN "on" ELSE "none"
    /\ spi_open = (v \in {"respeaker", "cli_rpi5"})
    /\ led_states = IF v \in Rpi5Like THEN AllOf(n, _BLACK) ELSE <<>>
    /\ strip = IF v = "respeaker" THEN <<>> ELSE AllOf(n, _BLACK)
    /\ wire = <<>>
    /\ sent = <<>>

\* the authoritative frame, entry by entry: led_states, the pixels of the
\* rpi_ws281x strip, or the 4-byte words of the APA102 buffer
Auth ==
    CASE variant = "respeaker" -> [j \in 1..num_leds |-> Word(leds, j - 1)]
      [] variant \in Rpi5Like -> led_states
      [] variant \in Ws281xLike -> strip

\* flat value lists for set_pattern: one colour per LED for m LEDs
PatternFrames(m) ==
    {[j \in 1..m |-> IF j % 2 = 1 THEN a ELSE b] : a, b \in ApiColours}

PatternArgs ==
    UNION {{Concat(f) : f \in PatternFrames(m)} :
              m \in {num_leds, num_leds + 1}}
    \cup {Tail(Concat(f)) : f \in PatternFrames(num_leds)}

ApiCallRec(op, i, c, vals) == [op |-> op, i |-> i, c |-> c, pct |-> 100, vals |-> vals]

ApiCalls ==
    {ApiCallRec("set_color", i, c, <<>>) : i \in (-1)..num_leds, c \in ApiColours}
    \cup {ApiCallRec("set_all", 0, c, <<>>) : c \in ApiColours}
    \cup (IF variant \in CliVariants
          THEN {ApiCallRec("set_pattern", 0, _BLACK, v) : v \in PatternArgs}
          ELSE {})
    \cup {ApiCallRec("clear", 0, _BLACK, <<>>), ApiCallRec("cleanup", 0, _BLACK, <<>>)}

\* set_pattern's length check fails: sys.exit(1)
PatternRejected(k) == k.op = "set_pattern" /\ Len(k.vals) # num_leds * 3

\* the primitive operations of call k
CallOps(k) ==
    CASE k.op = "set_color" -> SetColorOps(k.i, k.c)
      [] k.op = "set_all" -> SetAllOps(k.c)
      [] k.op = "set_pattern" ->
           IF PatternRejected(k) THEN <<>> ELSE SetPatternOps(k.vals)
      [] k.op = "clear" -> ClearOps
      [] k.op = "cleanup" -> CleanupOps
      [] OTHER -> <<>>

\* the effect of operation o on the counters
Count(o) ==
    /\ tries' = IF o.op \in {"stripshow", "xstart"} THEN tries + 1 ELSE tries
    /\ shows' = IF Completes(o) THEN shows + 1 ELSE shows

apisvc == <<inbox, st, prog, ev, nframes, who, susp, narr, last, cleanups, flashcut>>

InitApi ==
    /\ \E v \in ApiVariants, n \in 1..MaxApiLeds : Constructed(v, n)
    /\ ApiIdle
    /\ exc = "none"
    /\ SvcIdle
    /\ phase = "api"
    /\ call = NoCall
    /\ calls = 0

ApiCall(k) ==
    /\ phase = "api"
    /\ todo = <<>>
    /\ calls < MaxApiCalls
    /\ call' = k
    /\ calls' = calls + 1
    /\ todo' = CallOps(k)
    /\ exc' = IF PatternRejected(k) THEN "SystemExit" ELSE "none"
    /\ before' = Auth
    /\ tries' = 0
    /\ shows' = 0
    /\ UNCHANGED <<variant, num_leds, brightness, rgb, leds, led_power, spi_open,
                   led_states, strip, wire, sent, order, bright_arg, phase,
                   fault, exit_code>>
    /\ UNCHANGED apisvc

ApiStep ==
    /\ phase = "api"
    /\ todo # <<>>
    /\ Exec(Head(todo))
    /\ Count(Head(todo))
    /\ todo' = IF Raises(Head(todo)) THEN <<>> ELSE Tail(todo)
    /\ UNCHANGED <<variant, num_leds, brightness, rgb, order, bright_arg, phase,
                   call, calls, before, fault, exit_code>>
    /\ UNCHANGED apisvc

NextApi ==
    \/ \E k \in ApiCalls : ApiCall(k)
    \/ ApiStep

SpecApi == InitApi /\ [][NextApi]_vars

(***************************************************************************)
(* SpecCli: one run of led_controller.py.  Init is the state after         *)
(* parse_args(): the --leds value, the driver the constructor will pick,   *)
(* the command with its arguments, and whether the transport fails at the  *)
(* first or at every strip.show().  main() constructs the controller, runs *)
(* the command, and its finally block runs cleanup() before the exit.      *)
(***************************************************************************)
CliCallRec(op, i, c, vals, n, d) ==
    [op |-> op, i |-> i, c |-> c, pct |-> 100, vals |-> vals, leds |-> n, driver |-> d]

\* flat value lists for the pattern command: right length, one value more,
\* one value less
CliPatternArgs(n) ==
    UNION {{Concat(f) : f \in PatternFrames(m)} : m \in {n, n + 1}}
    \cup {Tail(Concat(f)) : f \in PatternFrames(n) \ {<<>>}}

CliCommands(n, d) ==
    {CliCallRec("set_color", i, _RED, <<>>, n, d) : i \in {-1, 0, n}}
    \cup {CliCallRec("set_all", 0, _RED, <<>>, n, d)}
    \cup {CliCallRec("set_pattern", 0, _BLACK, v, n, d) : v \in CliPatternArgs(n)}
    \cup {CliCallRec("clear", 0, _BLACK, <<>>, n, d),
          CliCallRec("help", 0, _BLACK, <<>>, n, d)}

FaultArgs == {"none", "first", "all"}

\* `'controller' in globals()`: the constructor has returned
HasController == variant \in CliVariants

InitCli ==
    /\ variant = "none"
    /\ num_leds = 0
    /\ bright_arg = 31
    /\ brightness = ClampBrightness(bright_arg)
    /\ order = "rgb"
    /\ rgb = OrderMap(order)
    /\ leds = <<>>
    /\ led_power = "none"
    /\ spi_open = FALSE
    /\ led_states = <<>>
    /\ strip = <<>>
    /\ wire = <<>>
    /\ sent = <<>>
    /\ exc = "none"
    /\ SvcIdle
    /\ phase = "cli_start"
    /\ \E n \in 0..MaxCliLeds, d \in CliVariants : call \in CliCommands(n, d)
    /\ calls = 0
    /\ tries = 0
    /\ shows = 0
    /\ before = <<>>
    /\ fault \in FaultArgs
    /\ exit_code = "none"

\* controller = LEDController(args.leds, ...)
CliConstruct ==
    /\ phase = "cli_start"
    /\ IF call.leds > MAX_LEDS
       THEN /\ exc' = "ValueError"
            /\ phase' = "cli_except"
            /\ UNCHANGED <<variant, num_leds, bright_arg, brightness, order, rgb,
                           leds, led_power, spi_open, led_states, strip, wire,
                           sent, before>>
       ELSE /\ variant' = call.driver
            /\ num_leds' = call.leds
            /\ led_states' = IF call.driver \in Rpi5Like
                             THEN AllOf(call.leds, _BLACK) ELSE <<>>
            /\ strip' = AllOf(call.leds, _BLACK)
            /\ spi_open' = (call.driver = "cli_rpi5")
            /\ UNCHANGED <<bright_arg, brightness, order, rgb, leds, led_power,
                           wire, sent>>
            /\ before' = AllOf(call.leds, _BLACK)
            /\ phase' = "cli_cmd"
            /\ UNCHANGED exc
    /\ UNCHANGED <<call, calls, tries, shows, fault, exit_code, todo>>
    /\ UNCHANGED apisvc

\* the command is dispatched; set_pattern's length check may sys.exit(1), a
\* call without operations returns at once, no command prints the help
CliCommand ==
    /\ phase = "cli_cmd"
    /\ calls' = calls + 1
    /\ before' = Auth
    /\ IF PatternRejected(call)
       THEN /\ exit_code' = "1"
            /\ exc' = "SystemExit"
            /\ todo' = <<>>
            /\ phase' = "cli_finally"
       ELSE /\ todo' = CallOps(call)
            /\ phase' = IF todo' = <<>> THEN "cli_finally" ELSE "cli_run"
            /\ UNCHANGED <<exit_code, exc>>
    /\ UNCHANGED <<variant, num_leds, brightness, rgb, leds, led_power, spi_open,
                   led_states, strip, wire, sent, order, bright_arg, call,
                   tries, shows, fault>>
    /\ UNCHANGED apisvc

\* one operation of the command; an exception leaves the controller method
\* (print, raise) and reaches main()
CliStep ==
    /\ phase = "cli_run"
    /\ Exec(Head(todo))
    /\ Count(Head(todo))
    /\ IF Raises(Head(todo))
       THEN todo' = <<>> /\ phase' = "cli_except"
       ELSE /\ todo' = Tail(todo)
            /\ phase' = IF todo' = <<>> THEN "cli_finally" ELSE "cli_run"
    /\ UNCHANGED <<variant, num_leds, brightness, rgb, order, bright_arg,
                   call, calls, before, fault, exit_code>>
    /\ UNCHANGED apisvc

\* mutant of CliExcept: the handlers return instead of exiting with 1
CliExcept_Return ==
    /\ phase = "cli_except"
    /\ exit_code' = "0"
    /\ phase' = "cli_finally"
    /\ UNCHANGED <<variant, num_leds, brightness, rgb, leds, led_power, spi_open,
                   led_states, strip, wire, sent, exc, order, bright_arg, call,
                   calls, tries, shows, before, fault, todo>>
    /\ UNCHANGED apisvc

\* except ValueError / except Exception: print, sys.exit(1)
CliExcept ==
    /\ phase = "cli_except"
    /\ exit_code' = "1"
    /\ phase' = "cli_finally"
    /\ UNCHANGED <<variant, num_leds, brightness, rgb, leds, led_power, spi_open,
                   led_states, strip, wire, sent, exc, order, bright_arg, call,
                   calls, tries, shows, before, fault, todo>>
    /\ UNCHANGED apisvc

\* finally: if 'controller' in globals(): controller.cleanup()
CliFinally ==
    /\ phase = "cli_finally"
    /\ IF HasController
       THEN todo' = CleanupOps /\ phase' = "cli_cleanup" /\ UNCHANGED exit_code
       ELSE /\ todo' = <<>>
            /\ phase' = "cli_exit"
            /\ exit_code' = IF exit_code = "none" THEN "0" ELSE exit_code
    /\ UNCHANGED <<variant, num_leds, brightness, rgb, leds, led_power, spi_open,
                   led_states, strip, wire, sent, exc, order, bright_arg, call,
                   calls, tries, shows, before, fault>>
    /\ UNCHANGED <<inbox, st, prog, ev, nframes, who, susp, narr, last,
                   cleanups, flashcut>>

\* one operation of cleanup(); an exception ends cleanup() silently; when
\* cleanup() has returned the process exits
CliCleanupStep ==
    /\ phase = "cli_cleanup"
    /\ todo # <<>>
    /\ Exec(Head(todo))
    /\ Count(Head(todo))
    /\ todo' = IF Raises(Head(todo)) THEN <<>> ELSE Tail(todo)
    /\ IF todo' = <<>>
       THEN /\ cleanups' = cleanups + 1
            /\ phase' = "cli_exit"
            /\ exit_code' = IF exit_code = "none" THEN "0" ELSE exit_code
       ELSE UNCHANGED <<cleanups, phase, exit_code>>
    /\ UNCHANGED <<variant, num_leds, brightness, rgb, order, bright_arg,
                   call, calls, before, fault>>
    /\ UNCHANGED <<inbox, st, prog, ev, nframes, who, susp, narr, last, flashcut>>

NextCli ==
    \/ CliConstruct
    \/ CliCommand
    \/ CliStep
    \/ CliExcept
    \/ CliFinally
    \/ CliCleanupStep

SpecCli == InitCli /\ [][NextCli]_vars

(***************************************************************************)
(* LEDEventHandler.handle_event as the list of its (colour, sleep) steps;  *)
(* sleep is in tenths of a second, 0 for no await.                         *)
(***************************************************************************)
Lifecycle == {"StreamingStarted", "Detection", "VoiceStarted", "Transcript",
              "StreamingStopped", "RunSatellite", "SatelliteConnected",
              "SatelliteDisconnected"}
Events == Lifecycle \cup {"Other"}

PStep(c, sleep) == [c |-> c, sleep |-> sleep]

Flash == <<PStep(_GREEN, 3), PStep(_BLACK, 3)>>

Program(e) ==
    CASE e = "StreamingStarted" -> <<PStep(_YELLOW, 0)>>
      [] e = "Detection" -> <<PStep(_BLUE, 10)>>
      [] e = "VoiceStarted" -> <<PStep(_YELLOW, 0)>>
      [] e = "Transcript" -> <<PStep(_GREEN, 10)>>
      [] e = "StreamingStopped" -> <<PStep(_BLACK, 0)>>
      [] e = "RunSatellite" -> <<PStep(_BLACK, 0)>>
      [] e = "SatelliteConnected" -> Flash \o Flash \o Flash
      [] e = "SatelliteDisconnected" -> <<PStep(_RED, 0)>>
      [] OTHER -> <<>>

(***************************************************************************)
(* Spec: the service.                                                      *)
(***************************************************************************)
Init ==
    /\ variant \in Variants
    /\ num_leds \in 1..MaxSvcLeds
    /\ bright_arg = 31
    /\ brightness = ClampBrightness(bright_arg)
    /\ ApiIdle
    /\ order = "rgb"
    /\ rgb = OrderMap(order)
    /\ leds = IF variant = "respeaker" THEN InitLeds(num_leds) ELSE <<>>
    /\ led_power = IF variant = "respeaker" THEN "on" ELSE "none"
    /\ spi_open = (variant = "respeaker")
    /\ led_states = IF variant = "rpi5" THEN AllOf(num_leds, _BLACK) ELSE <<>>
    /\ strip = IF variant = "respeaker" THEN <<>> ELSE AllOf(num_leds, _BLACK)
    /\ wire = <<>>
    /\ sent = <<>>
    /\ exc = "none"
    /\ SvcIdle
    /\ phase = "serve"
    /\ call = NoCall
    /\ calls = 0

cfgvars == <<variant, num_leds, brightness, rgb, order, call, calls,
             bright_arg, apivars>>

\* a handler is inside the flash sequence of satellite-connected
InFlash == \E c \in Conns : ev[c] = "SatelliteConnected"

\* an event arrives on connection c.  The event loop takes data off a socket
\* only between two callbacks, so an arrival is placed between two pieces of
\* synchronous code.
Deliver(c, e) ==
    /\ phase = "serve"
    /\ who = "none"
    /\ narr < MaxEvents
    /\ inbox' = [inbox EXCEPT ![c] = Append(@, e)]
    /\ narr' = narr + 1
    /\ last' = IF e \in Lifecycle THEN e ELSE last
    /\ flashcut' = (flashcut \/ (e = "SatelliteDisconnected" /\ InFlash))
    /\ UNCHANGED <<st, prog, ev, nframes, who, todo, susp, phase, cleanups>>
    /\ UNCHANGED ctlvars
    /\ UNCHANGED cfgvars

\* the handler of connection c, handling event e, enters the colour call of the
\* first step of p, or returns (the task goes back to reading) when p is empty
Enter(c, e, p) ==
    /\ prog' = [prog EXCEPT ![c] = p]
    /\ IF p = <<>>
       THEN /\ st' = [st EXCEPT ![c] = "read"]
            /\ ev' = [ev EXCEPT ![c] = "none"]
            /\ who' = "none"
            /\ todo' = <<>>
       ELSE /\ st' = [st EXCEPT ![c] = "color"]
            /\ ev' = [ev EXCEPT ![c] = e]
            /\ who' = "handler"
            /\ todo' = SetAllOps(Head(p).c)

\* the connection's task reads the next event and calls handle_event
Dispatch(c) ==
    /\ phase = "serve"
    /\ who = "none"
    /\ st[c] = "read"
    /\ inbox[c] # <<>>
    /\ inbox' = [inbox EXCEPT ![c] = Tail(@)]
    /\ Enter(c, Head(inbox[c]), Program(Head(inbox[c])))
    /\ UNCHANGED <<nframes, susp, phase, narr, last, cleanups, flashcut>>
    /\ UNCHANGED ctlvars
    /\ UNCHANGED cfgvars

\* asyncio.sleep of connection c's handler elapses and the handler resumes
Wake(c) ==
    /\ phase = "serve"
    /\ who = "none"
    /\ st[c] = "sleep"
    /\ Enter(c, ev[c], Tail(prog[c]))
    /\ nframes' = IF Tail(prog[c]) = <<>> THEN [nframes EXCEPT ![c] = 0] ELSE nframes
    /\ UNCHANGED <<inbox, susp, phase, narr, last, cleanups, flashcut>>
    /\ UNCHANGED ctlvars
    /\ UNCHANGED cfgvars

\* the connection whose handler is inside a colour call
Cur == CHOOSE c \in Conns : st[c] = "color"

\* the running code executes its next primitive operation; after the last one
\* control passes on: a handler sleeps or returns, signal_handler calls
\* sys.exit(0) and main()'s finally block runs, the finally block ends
Step ==
    /\ todo # <<>>
    /\ Exec(Head(todo))
    /\ LET o == Head(todo)
           rest == IF Raises(o) THEN <<>> ELSE Tail(todo)
           returns == who = "handler" /\ rest = <<>>
                      /\ Head(prog[Cur]).sleep = 0 /\ Tail(prog[Cur]) = <<>>
       IN  /\ nframes' = CASE returns -> [nframes EXCEPT ![Cur] = 0]
                           [] who = "handler" /\ Completes(o) ->
                                [nframes EXCEPT ![Cur] = @ + 1]
                           [] OTHER -> nframes
           /\ cleanups' = IF who \in {"signal", "finally"} /\ rest = <<>> /\ ~Raises(o)
                          THEN cleanups + 1
                          ELSE cleanups
           /\ IF rest # <<>>
              THEN /\ todo' = rest
                   /\ UNCHANGED <<who, st, prog, ev, phase, susp>>
              ELSE CASE who = "handler" ->
                          /\ UNCHANGED <<phase, susp>>
                          /\ IF Head(prog[Cur]).sleep > 0
                             THEN /\ st' = [st EXCEPT ![Cur] = "sleep"]
                                  /\ who' = "none"
                                  /\ todo' = <<>>
                                  /\ UNCHANGED <<prog, ev>>
                             ELSE Enter(Cur, ev[Cur], Tail(prog[Cur]))
                     [] who = "signal" ->
                          /\ phase' = "finally"
                          /\ who' = "finally"
                          /\ todo' = CleanupOps
                          /\ susp' = <<>>
                          /\ UNCHANGED <<st, prog, ev>>
                     [] who = "finally" ->
                          /\ phase' = "done"
                          /\ who' = "none"
                          /\ todo' = <<>>
                          /\ UNCHANGED <<st, prog, ev, susp>>
    /\ UNCHANGED <<inbox, narr, last, flashcut>>
    /\ UNCHANGED cfgvars

\* The service stops serving.  No handler runs again: signal_handler ends in
\* sys.exit(0), and the SystemExit (or the error out of server.run) ends the
\* event loop, which cancels every handler task at its await.  The
\* connections' state is dead from here on and is reset.
Stopped ==
    /\ inbox' = [c \in Conns |-> <<>>]
    /\ st' = [c \in Conns |-> "read"]
    /\ prog' = [c \in Conns |-> <<>>]
    /\ ev' = [c \in Conns |-> "none"]
    /\ nframes' = [c \in Conns |-> 0]
    /\ narr' = 0
    /\ last' = "none"
    /\ flashcut' = FALSE

\* SIGINT or SIGTERM: signal_handler runs on the main thread, on top of
\* whatever code is running there
Signal ==
    /\ phase = "serve"
    /\ phase' = "signal"
    /\ susp' = todo
    /\ who' = "signal"
    /\ todo' = CleanupOps
    /\ Stopped
    /\ UNCHANGED cleanups
    /\ UNCHANGED ctlvars
    /\ UNCHANGED cfgvars

\* server.run ends with an error: main()'s finally block runs
ServerStop ==
    /\ phase = "serve"
    /\ who = "none"
    /\ phase' = "finally"
    /\ who' = "finally"
    /\ todo' = CleanupOps
    /\ Stopped
    /\ UNCHANGED <<susp, cleanups>>
    /\ UNCHANGED ctlvars
    /\ UNCHANGED cfgvars

Next ==
    \/ \E c \in Conns, e \in Events : Deliver(c, e)
    \/ \E c \in Conns : Dispatch(c)
    \/ \E c \in Conns : Wake(c)
    \/ Step
    \/ Signal
    \/ ServerStop

Spec == Init /\ [][Next]_vars

(***************************************************************************)
(* What the claims speak about.                                            *)
(***************************************************************************)
\* the authoritative frame of the controller
Frame ==
    IF variant = "respeaker" THEN FrameOf(leds, num_leds, rgb) ELSE strip

\* no handler is running, sleeping or has an event waiting
Quiescent ==
    /\ phase = "serve"
    /\ who = "none"
    /\ \A c \in Conns : st[c] = "read" /\ inbox[c] = <<>>

\* the transition table: the colour an event's presentation starts with
FirstColour(e) ==
    CASE e \in {"StreamingStarted", "VoiceStarted"} -> _YELLOW
      [] e = "Detection" -> _BLUE
      [] e \in {"Transcript", "SatelliteConnected"} -> _GREEN
      [] e \in {"StreamingStopped", "RunSatellite"} -> _BLACK
      [] e = "SatelliteDisconnected" -> _RED

\* the colour an event's presentation ends with
FinalColour(e) == IF e = "SatelliteConnected" THEN _BLACK ELSE FirstColour(e)

\* a show() has sent its start frame and not yet its end frame
MidShow(ops) == ops # <<>> /\ Head(ops).op \in {"xdata", "xend"}

\* the handler of connection c is in a 1.0 s hold
InHold(c) == st[c] = "sleep" /\ ev[c] \in {"Detection", "Transcript"}

\* the step in which a running handle_event completes its first frame
FirstFrameStep ==
    /\ phase = "serve" /\ phase' = "serve"
    /\ who = "handler" /\ nframes[Cur] = 0
    /\ Completes(Head(todo)) /\ todo' # todo

(***************************************************************************)
(* C1.  Animation cancellation: once a satellite-disconnected event has    *)
(* arrived while a handler is inside the satellite-connected flash, no     *)
(* handler transmits a further flash frame (none is inside a colour call   *)
(* of the flash), and when everything has been handled with that event the *)
(* latest, the last frame transmitted is all-Red.                          *)
(***************************************************************************)
C1_FlashCancelled ==
    flashcut =>
        /\ \A c \in Conns : ~(ev[c] = "SatelliteConnected" /\ st[c] = "color")
        /\ (Quiescent /\ last = "SatelliteDisconnected")
               => sent = AllOf(num_leds, _RED)

(***************************************************************************)
(* C2.  Hold preemption: a 1.0 s hold never runs to its end while an event *)
(* that arrived on the handler's connection is waiting to be applied.      *)
(***************************************************************************)
C2_HoldPreempted ==
    [][\A c \in Conns : (InHold(c) /\ inbox[c] # <<>>) => st'[c] = "sleep"]_vars

(***************************************************************************)
(* C3.  At most one handler, over all connections, is suspended inside a   *)
(* hold or a flash sequence.                                               *)
(***************************************************************************)
C3_OneAnimation == Cardinality({c \in Conns : st[c] = "sleep"}) <= 1

(***************************************************************************)
(* C4.  Last-event-wins: once every handler has finished, the last frame   *)
(* transmitted is the final presentation of the most recently arrived      *)
(* lifecycle event.                                                        *)
(***************************************************************************)
C4_LastEventWins ==
    (Quiescent /\ last # "none") => sent = AllOf(num_leds, FinalColour(last))

(***************************************************************************)
(* C5.  No two frame transmissions interleave: the signal handler's        *)
(* cleanup() is never inside a show() of its own while the code it         *)
(* interrupted is inside a show() that has not completed.                  *)
(***************************************************************************)
C5_NoInterleaving == ~(who = "signal" /\ MidShow(todo) /\ MidShow(susp))

(***************************************************************************)
(* C6.  Idempotent cleanup: no cleanup() raises, and after each cleanup()   *)
(* that has been called and has ended (the signal handler's, then the one  *)
(* of main()'s finally block) the frame is all-black.                      *)
(***************************************************************************)
C6_CleanupIdempotent ==
    /\ exc = "none"
    /\ (cleanups > 0 \/ phase = "done") => Frame = AllOf(num_leds, _BLACK)

(***************************************************************************)
(* C7.  Shutdown ordering: the program is never about to call xfer2 on a   *)
(* transport handle it has closed, and at the end of a controlled exit an  *)
(* all-black frame is the last one transmitted and the handle is released. *)
(***************************************************************************)
C7_ShutdownOrdering ==
    /\ ~(todo # <<>> /\ Head(todo).op \in XferOps /\ ~spi_open)
    /\ phase = "done" =>
           /\ sent = AllOf(num_leds, _BLACK)
           /\ variant = "respeaker" => ~spi_open

(***************************************************************************)
(* C8.  Event-to-colour mapping: when a single event has been delivered,   *)
(* the first frame its handler transmits is all-LED of the colour the      *)
(* transition table gives; an event of another type transmits nothing and  *)
(* leaves the frame unchanged.                                             *)
(***************************************************************************)
C8_EventColour ==
    [][/\ (FirstFrameStep /\ narr = 1)
          => sent' = AllOf(num_leds, FirstColour(ev[Cur]))
       /\ \A c \in Conns :
            (/\ phase = "serve" /\ phase' = "serve" /\ who = "none" /\ st[c] = "read"
             /\ inbox[c] # <<>> /\ Head(inbox[c]) = "Other"
             /\ inbox'[c] = Tail(inbox[c]))
            => (who' = "none" /\ UNCHANGED <<sent, wire, leds, led_states, strip>>)
      ]_vars

\* C8's first part on the controllers whose set_all transmits once (a
\* cross-check of where C8 fails)
EventColourOneShow ==
    [][(FirstFrameStep /\ narr = 1 /\ (variant # "rpi281x" \/ num_leds = 1))
          => sent' = AllOf(num_leds, FirstColour(ev[Cur]))]_vars

(***************************************************************************)
(* The encoder claims, under SpecEnc.                                      *)
(***************************************************************************)
\* the last call was set_color on an LED of the strip
SetColorDone ==
    /\ phase = "enc"
    /\ call.op = "set_color"
    /\ 0 <= call.i /\ call.i < num_leds

\* the word set_color would write for colour c at bright_percent pct on a
\* controller constructed with order o and this controller's brightness
WordFor(o, c, pct) ==
    Word(SetColorLeds(InitLeds(1), 1, OrderMap(o), brightness, 0, c, pct), 0)

\* the buffer after set_color(0,255,0,0), set_color(1,0,255,0),
\* set_color(2,0,0,255) on a fresh 3-LED controller
RGBBuffer ==
    SetColorLeds(
        SetColorLeds(
            SetColorLeds(InitLeds(3), 3, rgb, brightness, 0, _RED, 100),
            3, rgb, brightness, 1, _GREEN, 100),
        3, rgb, brightness, 2, _BLUE, 100)

\* num_leds=3, brightness=31, order="rgb", the three set_color calls made and
\* show() called last
C9_Scenario ==
    /\ phase = "enc"
    /\ num_leds = 3 /\ brightness = 31 /\ order = "rgb"
    /\ leds = RGBBuffer
    /\ call.op = "show"

Letters(o) ==
    CASE o = "rgb" -> <<"r", "g", "b">>
      [] o = "rbg" -> <<"r", "b", "g">>
      [] o = "grb" -> <<"g", "r", "b">>
      [] o = "gbr" -> <<"g", "b", "r">>
      [] o = "brg" -> <<"b", "r", "g">>
      [] o = "bgr" -> <<"b", "g", "r">>

Chan(c, l) == CASE l = "r" -> c[1] [] l = "g" -> c[2] [] l = "b" -> c[3]

C18_BrightnessClamp ==
    phase = "enc" =>
        /\ brightness = Min(bright_arg, 31)
        /\ (brightness = 0 /\ call.op = "set_all") =>
               /\ Concat(wire) = StartFrame \o leds \o EndFrame
               /\ Len(leds) = 4 * num_leds
               /\ \A j \in 0..(num_leds - 1) : Word(leds, j)[1] = 224

C18_Witness ==
    /\ phase = "enc" /\ bright_arg = 0 /\ call.op = "set_all"
    /\ Len(wire) = 3 /\ num_leds = 2

(***************************************************************************)
(* C19.  Per-pixel brightness is clamped, never wrapped: after set_color   *)
(* with bright_percent p on a controller of configured brightness b, byte  *)
(* 0 of the LED word is 0xE0 | min(31, round(p / 100 * b)).                *)
(***************************************************************************)
C19_BrightnessClamped ==
    SetColorDone =>
        Word(leds, call.i)[1] =
            224 + Min(31, PixelBrightness(call.pct, brightness))

(***************************************************************************)
(* C20.  APA102 chunked transmission, under SpecShow: after a show() every *)
(* single transfer carries at most 32 bytes, the first transfer begins     *)
(* with the start frame 00 00 00 00, the last one ends with the end frame, *)
(* and the transfers concatenated in order are the start frame, the        *)
(* 4 * num_leds buffer bytes in LED order and the end frame.               *)
(***************************************************************************)
C20_ChunkedTransmission ==
    (phase = "enc" /\ call.op \in {"show", "set_all"}) =>
        /\ \A k \in 1..Len(wire) : Len(wire[k]) <= 32
        /\ SubSeq(wire[1], 1, 4) = <<0, 0, 0, 0>>
        /\ LET z == wire[Len(wire)]
           IN  Len(z) >= 4 /\ SubSeq(z, Len(z) - 3, Len(z)) = <<255, 255, 255, 255>>
        /\ Len(leds) = 4 * num_leds
        /\ Concat(wire) = <<0, 0, 0, 0>> \o leds \o <<255, 255, 255, 255>>

\* a 10-LED strip (40 bytes, two slices) with two LEDs set apart from the
\* others has been shown
C20_Witness ==
    /\ phase = "enc" /\ call.op = "show" /\ num_leds = 10
    /\ Len(wire) = 4 /\ Len(wire[2]) = 32 /\ Len(wire[3]) = 8
    /\ Word(leds, 7) = <<255, 3, 2, 1>> /\ Word(leds, 8) = <<255, 6, 5, 4>>

(***************************************************************************)
(* The call-level claims, under SpecApi.                                   *)
(***************************************************************************)
\* the last call has returned
Returned == phase = "api" /\ call.op # "none" /\ todo = <<>> /\ exc = "none"

InRange == 0 <= call.i /\ call.i < num_leds

\* the authoritative frame as colours
AuthFrame ==
    IF variant = "respeaker" THEN FrameOf(leds, num_leds, rgb) ELSE Auth

(***************************************************************************)
(* C12.  Every mutating call causes exactly one frame transmission: when   *)
(* set_color with an index in range, set_all, set_pattern with a list of   *)
(* valid length or clear has returned, exactly one whole frame has been    *)
(* put on the transport by it.                                             *)
(***************************************************************************)
C12_OneTransmissionPerCall ==
    (/\ Returned
     /\ \/ call.op = "set_color" /\ InRange
        \/ call.op \in {"set_all", "set_pattern", "clear"})
    => (tries = 1 /\ shows = 1)

(***************************************************************************)
(* C13.  set_color(i, C) with 0 <= i < led_count changes only entry i of   *)
(* the authoritative frame: every other entry has the value it had when    *)
(* the call was made, and entry i holds C.                                 *)
(***************************************************************************)
C13_SetColorLocal ==
    (phase = "api" /\ call.op = "set_color" /\ InRange /\ todo = <<>>) =>
        /\ DOMAIN Auth = DOMAIN before
        /\ \A j \in 1..num_leds : j # call.i + 1 => Auth[j] = before[j]
        /\ AuthFrame[call.i + 1] = call.c

\* set_color has changed a LED of a 2-LED frame that an earlier call had set
C13_Witness ==
    /\ phase = "api" /\ call.op = "set_color" /\ InRange /\ todo = <<>>
    /\ calls >= 2 /\ num_leds = 2
    /\ Auth # before
    /\ \E j \in 1..num_leds : j # call.i + 1 /\ AuthFrame[j] # _BLACK

(***************************************************************************)
(* C14.  After set_all(C) has returned the authoritative frame is led_count *)
(* copies of C; and in every reachable state the authoritative frame has   *)
(* the length fixed at construction (led_count entries, 4 * led_count      *)
(* bytes for the APA102 buffer).                                           *)
(***************************************************************************)
C14_SetAllAndLength ==
    phase = "api" =>
        /\ (Returned /\ call.op = "set_all") => AuthFrame = AllOf(num_leds, call.c)
        /\ Len(Auth) = num_leds
        /\ variant = "respeaker" => Len(leds) = 4 * num_leds

\* set_all has overwritten a 2-LED frame that was not uniform
C14_Witness ==
    /\ Returned /\ call.op = "set_all" /\ num_leds = 2
    /\ before[1] # before[2]
    /\ AuthFrame = AllOf(num_leds, call.c)

(***************************************************************************)
(* C16.  Out-of-range pixel index: for every controller, set_color with    *)
(* index < 0 or index >= led_count raises nothing, leaves the authoritative *)
(* frame unchanged and performs no transmission.                           *)
(***************************************************************************)
C16_OutOfRangeIgnored ==
    (phase = "api" /\ call.op = "set_color" /\ ~InRange) =>
        /\ todo = <<>>
        /\ exc = "none"
        /\ Auth = before
        /\ tries = 0 /\ shows = 0

\* set_color(led_count, ...) on a frame that is not black
C16_Witness ==
    /\ phase = "api" /\ call.op = "set_color" /\ call.i = num_leds
    /\ todo = <<>> /\ calls >= 2
    /\ AuthFrame # AllOf(num_leds, _BLACK)

(***************************************************************************)
(* The claims about led_controller.py as a program, under SpecCli.         *)
(***************************************************************************)
\* main() is past the constructor call
PastConstructor == phase \in {"cli_cmd", "cli_run", "cli_except", "cli_finally",
                              "cli_cleanup", "cli_exit"}

(***************************************************************************)
(* C11.  Controller construction bounds: construction succeeds for every   *)
(* led_count in 1..10; for led_count = 0 and led_count > 10 it fails with  *)
(* a configuration error: no controller is produced, nothing is            *)
(* transmitted, and the process exits with 1.                              *)
(***************************************************************************)
C11_ConstructionBounds ==
    PastConstructor =>
        /\ call.leds \in 1..10 => HasController
        /\ call.leds \notin 1..10 =>
              /\ ~HasController
              /\ exc = "ValueError"
              /\ tries = 0
              /\ phase = "cli_exit" => exit_code = "1"

(***************************************************************************)
(* C15.  Pattern command rejection: set_pattern with a value list whose    *)
(* length differs from 3 * led_count exits with code 1, leaves the         *)
(* authoritative frame as it was, and no frame transmission is attempted   *)
(* from the command until the process has exited.                          *)
(***************************************************************************)
C15_PatternRejected ==
    (HasController /\ PatternRejected(call) /\ calls = 1) =>
        /\ phase = "cli_finally" => Auth = before
        /\ tries = 0
        /\ phase = "cli_exit" => exit_code = "1"

(***************************************************************************)
(* C17.  Transport failure in the command-line controller: when            *)
(* strip.show() fails during set_color, set_all or set_pattern, the error  *)
(* reaches main() after exactly one transmission attempt (none completed), *)
(* the exit code is set to 1, and cleanup() has been called exactly once   *)
(* when the process exits with code 1.                                     *)
(***************************************************************************)
C17_TransportFailure ==
    (exc = "OSError" /\ call.op \in {"set_color", "set_all", "set_pattern"}) =>
        /\ phase \in {"cli_except", "cli_finally", "cli_cleanup", "cli_exit"}
        /\ phase = "cli_except" => (tries = 1 /\ shows = 0 /\ cleanups = 0)
        /\ phase \in {"cli_finally", "cli_cleanup"} =>
               (exit_code = "1" /\ cleanups = 0)
        /\ phase = "cli_exit" => (exit_code = "1" /\ cleanups = 1 /\ tries = 2)

\* the first strip.show() of a pattern command failed; the process has
\* exited after cleanup() put its black frame on the transport
C17_Witness ==
    /\ phase = "cli_exit" /\ exc = "OSError" /\ call.op = "set_pattern"
    /\ fault = "first" /\ num_leds = 2
    /\ cleanups = 1 /\ shows = 1 /\ sent = AllOf(num_leds, _BLACK)

(***************************************************************************)
(* C21.  APA102 end frame sufficiency, under SpecShow: for every led_count *)
(* in 1..10, the end frame clocked out by show() (the last transfer)       *)
(* contains at least ceil(led_count / 2) one-bits.                         *)
(***************************************************************************)
\* number of one-bits of a byte
RECURSIVE OneBits(_)
OneBits(b) == IF b = 0 THEN 0 ELSE (b % 2) + OneBits(b \div 2)

\* number of one-bits of a transfer
RECURSIVE OneBitsOf(_)
OneBitsOf(xs) == IF xs = <<>> THEN 0 ELSE OneBits(Head(xs)) + OneBitsOf(Tail(xs))

\* ceil(n / 2)
HalfUp(n) == (n + 1) \div 2

C21_EndFrameSufficient ==
    (phase = "enc" /\ call.op \in {"show", "set_all"} /\ num_leds \in 1..MAX_LEDS) =>
        OneBitsOf(wire[Len(wire)]) >= HalfUp(num_leds)

\* a 10-LED strip has been shown: five one-bits are needed, the end frame
\* carries thirty-two
C21_Witness ==
    /\ phase = "enc" /\ call.op = "show" /\ num_leds = 10
    /\ Len(wire) = 4 /\ HalfUp(num_leds) = 5
    /\ OneBitsOf(wire[Len(wire)]) = 32

(***************************************************************************)
(* C22.  Uninterrupted satellite-connected flash, under Spec: when         *)
(* satellite-connected is the only event that arrives, its handler         *)
(* transmits exactly six frames in the order Green, Black, Green, Black,   *)
(* Green, Black, each followed by a 0.3 s wait (at the k-th wait k frames  *)
(* have been transmitted and the last one is all-Green for odd k,          *)
(* all-Black for even k), and once handle_event has returned the frame is  *)
(* all-Black; and no handle_event call transmits more than six frames.     *)
(***************************************************************************)
\* satellite-connected is the one event that has arrived
OnlyFlash == phase = "serve" /\ narr = 1 /\ last = "SatelliteConnected"

\* the handler of connection c is in the k-th 0.3 s wait of the flash
InFlashWait(c, k) ==
    /\ ev[c] = "SatelliteConnected"
    /\ st[c] = "sleep"
    /\ Len(prog[c]) = 7 - k

FlashColour(k) == IF k % 2 = 1 THEN _GREEN ELSE _BLACK

C22_UninterruptedFlash ==
    /\ \A c \in Conns : nframes[c] <= 6
    /\ OnlyFlash =>
         /\ \A c \in Conns : \A k \in 1..6 :
              InFlashWait(c, k) =>
                  /\ nframes[c] = k
                  /\ Head(prog[c]).sleep = 3
                  /\ sent = AllOf(num_leds, FlashColour(k))
                  /\ Frame = AllOf(num_leds, FlashColour(k))
         /\ Quiescent =>
              /\ sent = AllOf(num_leds, _BLACK)
              /\ Frame = AllOf(num_leds, _BLACK)

\* C22 on the controllers whose set_all transmits once (a cross-check of
\* where C22 fails)
FlashSixFramesOneShow ==
    (variant # "rpi281x" \/ num_leds = 1) => C22_UninterruptedFlash

\* the cases of the cross-check: the flash is in its last wait, and the flash
\* has returned, on a controller whose set_all transmits once
FlashLastWait ==
    OnlyFlash /\ variant = "respeaker" /\ num_leds = 2
    /\ \E c \in Conns : InFlashWait(c, 6) /\ nframes[c] = 6

FlashReturned ==
    OnlyFlash /\ Quiescent /\ variant = "rpi5" /\ num_leds = 2

====
